---- MODULE Spec2Model ----
(***************************************************************************)
(* deduplipy: the Deduplicator pipeline (construction, the sampling of     *)
(* fit, predict), Blocking.transform and hierarchical_clustering.          *)
(*                                                                         *)
(* Tables are sequences of rows in the order pandas produces them.         *)
(* Row ids are the 0-based positions np.arange assigns.  Scores and        *)
(* thresholds are counted in units of 1/One;   distances between clusters  *)
(* are kept squared and exact, as fractions <<numerator, denominator>>.    *)
(***************************************************************************)
EXTENDS Integers, Sequences, FiniteSets, TLC

(***************************************************************************)
(* Bounds of the model.                                                    *)
(***************************************************************************)
MaxRecords == 3
MaxClusterRecords == 4
MaxPairs == 3
MaxSamples == 10
MaxFitRecords == 3
MaxRules == 2

(***************************************************************************)
(* Generic helpers on sequences and sets.                                  *)
(***************************************************************************)
Range(s) == {s[i] : i \in 1..Len(s)}

RECURSIVE Flatten(_)
Flatten(ss) == IF ss = <<>> THEN <<>> ELSE Head(ss) \o Flatten(Tail(ss))

RECURSIVE SetToSortedSeq(_)
SetToSortedSeq(S) ==
    IF S = {} THEN <<>>
    ELSE LET m == CHOOSE x \in S : \A y \in S : x <= y
         IN  <<m>> \o SetToSortedSeq(S \ {m})

\* the rows of s at the positions in idx, in their original order
Pick(s, idx) == LET o == SetToSortedSeq(idx) IN [k \in 1..Len(o) |-> s[o[k]]]

Max(S) == CHOOSE x \in S : \A y \in S : y <= x

\* the sequences that list every element of S once
Orderings(S) ==
    {p \in [1..Cardinality(S) -> S] : \A i, j \in 1..Cardinality(S) : p[i] = p[j] => i = j}

RECURSIVE Gcd(_, _)
Gcd(a, b) == IF b = 0 THEN a ELSE Gcd(b, a % b)

Abs(a) == IF a < 0 THEN -a ELSE a

\* exact fractions <<numerator, denominator>>, denominator > 0, in lowest terms
Frac(n, d) == LET g == Gcd(Abs(n), d) IN IF g = 0 THEN <<0, 1>> ELSE <<n \div g, d \div g>>
FSub(a, b) == Frac(a[1] * b[2] - b[1] * a[2], a[2] * b[2])
FAdd(a, b) == Frac(a[1] * b[2] + b[1] * a[2], a[2] * b[2])
FTimes(k, a) == Frac(k * a[1], a[2])
FOver(a, k) == Frac(a[1], a[2] * k)
FLeq(a, b) == a[1] * b[2] <= b[1] * a[2]
FLess(a, b) == a[1] * b[2] < b[1] * a[2]
FMax(a, b) == IF FLeq(a, b) THEN b ELSE a

(***************************************************************************)
(* The data domain: two configured fields, field values, an optional       *)
(* column of the input table that is not configured, and the rule          *)
(* functions (value -> token | null) of the blocking rules.                *)
(***************************************************************************)
Null == "null"
col_names == <<"name", "addr">>
Values == {"ab", "abcd"}
NoColumn == "-"
ExtraKinds == {"none", "alt"}

whole_field(v) == v
first_three_letters(v) == IF v = "abcd" THEN "abc" ELSE Null

ApplyRule(fn, v) ==
    CASE fn = "whole_field" -> whole_field(v)
      [] fn = "first_three_letters" -> first_three_letters(v)

all_rules == <<"whole_field", "first_three_letters">>

\* the value of the unconfigured column of the record at position i
ExtraValue(kind, i) ==
    CASE kind = "none" -> NoColumn
      [] kind = "alt" -> IF i % 2 = 1 THEN "x" ELSE "y"

Records(n, kind) ==
    {r \in [1..n -> [name : Values, addr : Values, extra : {"x", "y", NoColumn}]] :
        \A i \in 1..n : r[i].extra = ExtraValue(kind, i)}

(***************************************************************************)
(* Blocking                                                                *)
(***************************************************************************)
\* Blocking._get_rules_specs: one rule spec per column and function, in the
\* order of rules_info (a sequence of <<column, functions>>)
RulesSpecs(info) ==
    Flatten([c \in 1..Len(info) |->
        [f \in 1..Len(info[c][2]) |-> [col_name |-> info[c][1], function |-> info[c][2][f]]]])

\* sub-sequences of s (the rule specs a fit can select, in their order)
SubSeqs(s) == {Pick(s, idx) : idx \in SUBSET (1..Len(s))}

\* the column a selected rule adds: the token tagged with the rule's index j,
\* null where the rule yields nothing
RuleColumn(X, sel, j) ==
    [i \in 1..Len(X) |->
        LET t == ApplyRule(sel[j].function, X[i][sel[j].col_name])
        IN  <<t, j - 1>>]

\* the columns df.melt turns into fingerprints: every column that is neither
\* in col_names nor the row id, in the order of the frame
ValueColumns(X, sel, kind) ==
    (IF kind = "none" THEN <<>> ELSE <<[i \in 1..Len(X) |-> <<X[i].extra, -1>>]>>)
    \o [j \in 1..Len(sel) |-> RuleColumn(X, sel, j)]

\* Blocking._fingerprint: melt, then dropna
Fingerprint(X, sel, kind) ==
    LET cols == ValueColumns(X, sel, kind)
        melted == Flatten([c \in 1..Len(cols) |->
                     [i \in 1..Len(X) |-> [row_id |-> i - 1, fingerprint |-> cols[c][i]]]])
    IN  SelectSeq(melted, LAMBDA r : r.fingerprint[1] # Null)

\* the inner self-join on fingerprint, in the order of the left rows
SelfMerge(fp) ==
    Flatten([l \in 1..Len(fp) |->
        LET match == {r \in 1..Len(fp) : fp[r].fingerprint = fp[l].fingerprint}
            o == SetToSortedSeq(match)
        IN  [k \in 1..Len(o) |->
                [row_id_1 |-> fp[l].row_id, row_id_2 |-> fp[o[k]].row_id,
                 fingerprint |-> fp[l].fingerprint]]])

\* Blocking._create_pairs_table
BlockingCreatePairsTable(fp) ==
    SelectSeq(SelfMerge(fp), LAMBDA p : p.row_id_1 < p.row_id_2)

KeepDuplicates(t) == t

\* drop_duplicates(subset=[row_id_1, row_id_2]): the first row of each pair stays
DropDuplicates(t) ==
    Pick(t, {i \in 1..Len(t) :
        \A k \in 1..(i - 1) : <<t[k].row_id_1, t[k].row_id_2>> # <<t[i].row_id_1, t[i].row_id_2>>})

\* Blocking.transform
BlockingTransform(X, sel, kind) ==
    DropDuplicates(BlockingCreatePairsTable(Fingerprint(X, sel, kind)))

(***************************************************************************)
(* Clustering                                                              *)
(***************************************************************************)
\* the score 1 (np.ones_like, 1 - cluster_threshold, the score of an exact
\* duplicate), in the unit of the scores
One == 20

\* the nodes of the graph in the order add_node inserts them
RECURSIVE GraphNodes(_)
GraphNodes(t) ==
    IF t = <<>> THEN <<>>
    ELSE LET before == GraphNodes(SubSeq(t, 1, Len(t) - 1))
             r == t[Len(t)]
             a == IF r.row_id_1 \in Range(before) THEN <<>> ELSE <<r.row_id_1>>
             b == IF r.row_id_2 \in Range(before) \/ r.row_id_2 = r.row_id_1
                  THEN <<>> ELSE <<r.row_id_2>>
         IN  before \o a \o b

\* the weight of the edge {u, v}: add_edge overwrites, a missing edge counts 0
EdgeScore(t, u, v) ==
    LET rows == {i \in 1..Len(t) : {t[i].row_id_1, t[i].row_id_2} = {u, v}}
    IN  IF rows = {} THEN 0 ELSE t[Max(rows)].score

Adjacent(t, u, v) == \E i \in 1..Len(t) : {t[i].row_id_1, t[i].row_id_2} = {u, v}

RECURSIVE Reach(_, _)
Reach(t, S) ==
    LET more == S \cup {v \in Range(GraphNodes(t)) : \E u \in S : Adjacent(t, u, v)}
    IN  IF more = S THEN S ELSE Reach(t, more)

\* nx.connected_components: one component per not yet seen node, in node order
RECURSIVE ComponentsFrom(_, _, _)
ComponentsFrom(t, nodes, seen) ==
    IF nodes = <<>> THEN <<>>
    ELSE IF Head(nodes) \in seen THEN ComponentsFrom(t, Tail(nodes), seen)
    ELSE LET c == Reach(t, {Head(nodes)})
         IN  <<c>> \o ComponentsFrom(t, Tail(nodes), seen \cup c)

ConnectedComponents(t) == ComponentsFrom(t, GraphNodes(t), {})

\* the orders in which graph.subgraph(component) lists its nodes: the order of
\* the component (a set) when it is less than half of the graph, else the
\* insertion order of the graph
SubgraphNodes(t, component) ==
    IF 2 * Cardinality(component) < Len(GraphNodes(t))
    THEN Orderings(component)
    ELSE {SelectSeq(GraphNodes(t), LAMBDA v : v \in component)}

\* distances = ones - eye - adjacency, squared, indexed by 0-based positions
Distances(t, nodes) ==
    [p \in {q \in (0..(Len(nodes) - 1)) \X (0..(Len(nodes) - 1)) : q[1] < q[2]} |->
        LET d == One - EdgeScore(t, nodes[p[1] + 1], nodes[p[2] + 1])
        IN  Frac(d * d, 1)]

NewDistSingle(dzx, dzy, dxy, nx, ny) == IF FLeq(dzx, dzy) THEN dzx ELSE dzy

\* the centroid update of the squared distance from z to the merge of x and y
NewDistCentroid(dzx, dzy, dxy, nx, ny) ==
    FOver(FSub(FAdd(FTimes(nx, dzx), FTimes(ny, dzy)), FOver(FTimes(nx * ny, dxy), nx + ny)),
          nx + ny)

Dist(D, a, b) == IF a < b THEN D[<<a, b>>] ELSE D[<<b, a>>]

\* hierarchy.linkage(method="centroid"): merge a closest pair x < y, drop x,
\* put the merged cluster in the place of y; a tie between closest pairs is
\* broken by the state of the library's heap, here: any of them
RECURSIVE LinkageFrom(_, _, _, _, _)
LinkageFrom(m, D, size, cluster_id, k) ==
    IF k = m - 1 THEN {<<>>}
    ELSE LET alive == {x \in 0..(m - 1) : size[x] > 0}
             prs == {p \in alive \X alive : p[1] < p[2]}
             mins == {p \in prs : \A q \in prs : FLeq(D[p], D[q])}
             Step(p) ==
                 LET x == p[1]
                     y == p[2]
                     row == [a |-> IF cluster_id[x] < cluster_id[y] THEN cluster_id[x] ELSE cluster_id[y],
                             b |-> IF cluster_id[x] < cluster_id[y] THEN cluster_id[y] ELSE cluster_id[x],
                             dist |-> D[p]]
                     size2 == [size EXCEPT ![x] = 0, ![y] = size[x] + size[y]]
                     id2 == [cluster_id EXCEPT ![y] = m + k]
                     D2 == [q \in DOMAIN D |->
                              IF y \in {q[1], q[2]} /\ x \notin {q[1], q[2]}
                                 /\ size[IF q[1] = y THEN q[2] ELSE q[1]] > 0
                              THEN LET z == IF q[1] = y THEN q[2] ELSE q[1]
                                   IN  NewDistCentroid(Dist(D, z, x), Dist(D, z, y), D[p],
                                                       size[x], size[y])
                              ELSE D[q]]
                 IN  {<<row>> \o z : z \in LinkageFrom(m, D2, size2, id2, k + 1)}
         IN  UNION {Step(p) : p \in mins}

Linkage(D, m) == LinkageFrom(m, D, [x \in 0..(m - 1) |-> 1], [x \in 0..(m - 1) |-> x], 0)

\* get_max_dist_for_each_cluster: the largest merge distance below a node
RECURSIVE MaxDist(_, _, _)
MaxDist(Z, m, node) ==
    LET r == Z[node - m + 1]
        l == IF r.a >= m THEN FMax(r.dist, MaxDist(Z, m, r.a)) ELSE r.dist
    IN  IF r.b >= m THEN FMax(l, MaxDist(Z, m, r.b)) ELSE l

\* cluster_monocrit: walk the tree from the root; a node whose largest merge
\* distance is within the cutoff leads one cluster; st = <<n_cluster, T>>
RECURSIVE Monocrit(_, _, _, _, _, _)
Monocrit(Z, m, cutoff, node, led, st) ==
    LET r == Z[node - m + 1]
        leads == ~led /\ FLeq(MaxDist(Z, m, node), cutoff)
        in == led \/ leads
        s0 == IF leads THEN <<st[1] + 1, st[2]>> ELSE st
        s1 == IF r.a >= m THEN Monocrit(Z, m, cutoff, r.a, in, s0) ELSE s0
        s2 == IF r.b >= m THEN Monocrit(Z, m, cutoff, r.b, in, s1) ELSE s1
        Leaf(s, v) == LET n == IF in THEN s[1] ELSE s[1] + 1
                      IN  <<n, [s[2] EXCEPT ![v] = n]>>
        s3 == IF r.a < m THEN Leaf(s2, r.a) ELSE s2
    IN  IF r.b < m THEN Leaf(s3, r.b) ELSE s3

\* hierarchy.fcluster(Z, t, criterion="distance"): the label of every leaf
FCluster(Z, m, t) ==
    Monocrit(Z, m, Frac(t * t, 1), 2 * m - 2, FALSE, <<0, [v \in 0..(m - 1) |-> 0]>>)[2]

CounterPlusOne(counter, component) == counter + 1

\* line 55: cluster_counter += len(component)
NextClusterCounter(counter, component) == counter + Cardinality(component)

\* lines 44-53: the labels the loop body can give the nodes of one component,
\* listed in the order nodes
ComponentClusters(t, nodes, cluster_threshold) ==
    IF Len(nodes) > 1
    THEN {FCluster(Z, Len(nodes), One - cluster_threshold) :
             Z \in Linkage(Distances(t, nodes), Len(nodes))}
    ELSE {[v \in {0} |-> 1]}

\* df_clusters.sort_values(deduplication_id): rows of equal id keep their order
RECURSIVE SortValues(_)
SortValues(t) ==
    IF t = <<>> THEN <<>>
    ELSE LET lo == CHOOSE i \in 1..Len(t) :
                      /\ \A k \in 1..Len(t) : t[i].deduplication_id <= t[k].deduplication_id
                      /\ \A k \in 1..(i - 1) : t[k].deduplication_id # t[i].deduplication_id
         IN  <<t[lo]>> \o SortValues(Pick(t, (1..Len(t)) \ {lo}))

(***************************************************************************)
(* Deduplicator.predict                                                    *)
(***************************************************************************)
\* a deduplication_id that is missing after the left merge
NaN == -1

\* the probabilities 0.05 and 0.9; the score thresholds 0.1 (the default) and
\* 1.0; the cluster thresholds 0.5 (the default) and 0.25
Scores == {1, 18}
ScoreThresholds == {2, 20}
PredictClusterThresholds == {10}
ClusterThresholds == {5, 10}

\* lines 249-255: the field values of both records are equal on every column
Identical(X, p) ==
    \A c \in 1..Len(col_names) :
        X[p.row_id_1 + 1][col_names[c]] = X[p.row_id_2 + 1][col_names[c]]

ScoredPairsTableNoOverride(X, pairs, proba) ==
    [i \in 1..Len(pairs) |->
        [row_id_1 |-> pairs[i].row_id_1, row_id_2 |-> pairs[i].row_id_2, score |-> proba[i]]]

\* lines 246-255: the classifier's probability, overridden for identical pairs
ScoredPairsTable(X, pairs, proba) ==
    [i \in 1..Len(pairs) |->
        [row_id_1 |-> pairs[i].row_id_1, row_id_2 |-> pairs[i].row_id_2,
         score |-> IF Identical(X, pairs[i]) THEN One ELSE proba[i]]]

\* lines 258-260
FilterScore(scored, threshold) == SelectSeq(scored, LAMBDA r : r.score >= threshold)

MergeInner(X, clusters) ==
    Flatten([i \in 1..Len(X) |-> SelectSeq(clusters, LAMBDA r : r.row_id = i - 1)])

\* line 271: X.merge(df_clusters, on=row_id, how="left")
MergeLeft(X, clusters) ==
    Flatten([i \in 1..Len(X) |->
        LET hit == SelectSeq(clusters, LAMBDA r : r.row_id = i - 1)
        IN  IF hit = <<>> THEN <<[row_id |-> i - 1, deduplication_id |-> NaN]>> ELSE hit])

\* line 211: the largest id present, NaN when there is none
MaxClusterId(Xm) ==
    LET ids == {Xm[i].deduplication_id : i \in 1..Len(Xm)} \ {NaN}
    IN  IF ids = {} THEN NaN ELSE Max(ids)

AddSingletonsFromMax(Xm) ==
    [i \in 1..Len(Xm) |->
        IF Xm[i].deduplication_id # NaN THEN Xm[i]
        ELSE [Xm[i] EXCEPT !.deduplication_id =
                 MaxClusterId(Xm)
                 + Cardinality({k \in 1..i : Xm[k].deduplication_id = NaN}) - 1]]

\* lines 210-216: the rows without an id get max + 1, max + 2, ... in row order
AddSingletons(Xm) ==
    [i \in 1..Len(Xm) |->
        IF Xm[i].deduplication_id # NaN THEN Xm[i]
        ELSE [Xm[i] EXCEPT !.deduplication_id =
                 MaxClusterId(Xm)
                 + Cardinality({k \in 1..i : Xm[k].deduplication_id = NaN})]]

\* the rule specs of the fitted Blocking instance
FittedRulesInfo == <<<<"name", all_rules>>, <<"addr", <<"whole_field">>>>>>

VARIABLES
    pc,                  \* the statement the run is at
    X,                   \* the input table, one record per row
    extra_kind,          \* how the column outside col_names is filled
    rules_selected,      \* Blocking.rules_selected
    score_threshold,
    cluster_threshold,
    pairs_table,         \* the result of Blocking.transform
    scored_pairs_table,  \* the pairs with their score, before the filter
    filtered_pairs_table,\* scored_pairs_table after the score_threshold filter
    components,          \* the components the loop has still to visit
    clustering,          \* the dict of hierarchical_clustering, in insertion order
    cluster_counter,
    result,              \* the table predict returns
    rules,               \* the argument rules of Deduplicator.__init__
    rules_info,          \* Deduplicator.rules_info, <<column, functions>> per column
    n_samples,           \* the argument n_samples of fit
    df_sample,           \* the row ids of the sample fit draws, in its order
    fit_pairs_table,     \* the pairs table of fit
    df_training,         \* the labelled pairs Blocking.fit is given, row i has index i - 1
    rule_sets,           \* the rule_set entries Blocking.fit has added to _rules_specs
    universe,            \* Blocking.universe
    cover,               \* Blocking.cover, each chosen subset by its position in subsets
    recall               \* Blocking.recall, in halves

vars == <<pc, X, extra_kind, rules_selected, score_threshold, cluster_threshold,
          pairs_table, scored_pairs_table, filtered_pairs_table, components,
          clustering, cluster_counter, result, rules, rules_info, n_samples,
          df_sample, fit_pairs_table, df_training, rule_sets, universe, cover,
          recall>>

configVars == <<rules, rules_info>>
fitVars == <<n_samples, df_sample, fit_pairs_table>>
predictVars == <<rules_selected, score_threshold, cluster_threshold, pairs_table,
                 scored_pairs_table, filtered_pairs_table, components, clustering,
                 cluster_counter, result>>

blockingVars == <<df_training, rule_sets, universe, cover, recall>>

\* no Blocking.fit has run on this instance: recall is the default 1.0
BlockingIdle ==
    /\ df_training = <<>>
    /\ rule_sets = <<>>
    /\ universe = {}
    /\ cover = <<>>
    /\ recall = 2

\* a Deduplicator built with the rules of FittedRulesInfo, and no fit running
Constructed ==
    /\ rules = [kind |-> "dict", value |-> FittedRulesInfo]
    /\ rules_info = FittedRulesInfo
    /\ n_samples = 0
    /\ df_sample = <<>>
    /\ fit_pairs_table = <<>>

Init ==
    /\ pc = "predict"
    /\ extra_kind \in ExtraKinds
    /\ \E n \in 0..MaxRecords : X \in Records(n, extra_kind)
    /\ rules_selected \in SubSeqs(RulesSpecs(FittedRulesInfo))
    /\ score_threshold \in ScoreThresholds
    /\ cluster_threshold \in PredictClusterThresholds
    /\ pairs_table = <<>>
    /\ scored_pairs_table = <<>>
    /\ filtered_pairs_table = <<>>
    /\ components = <<>>
    /\ clustering = <<>>
    /\ cluster_counter = 0
    /\ result = <<>>
    /\ Constructed
    /\ BlockingIdle

\* predict, lines 237-240
Transform ==
    /\ pc = "predict"
    /\ pairs_table' = BlockingTransform(X, rules_selected, extra_kind)
    /\ pc' = "blocked"
    /\ UNCHANGED <<X, extra_kind, rules_selected, score_threshold, cluster_threshold,
                   scored_pairs_table, filtered_pairs_table, components, clustering,
                   cluster_counter, result,
                   configVars, fitVars, blockingVars>>

\* predict, lines 245-260: any probabilities from the classifier
Score ==
    /\ pc = "blocked"
    /\ \E proba \in [1..Len(pairs_table) -> Scores] :
          /\ scored_pairs_table' = ScoredPairsTable(X, pairs_table, proba)
          /\ filtered_pairs_table' =
                 FilterScore(ScoredPairsTable(X, pairs_table, proba), score_threshold)
    /\ pc' = "filtered"
    /\ UNCHANGED <<X, extra_kind, rules_selected, score_threshold, cluster_threshold,
                   pairs_table, components, clustering, cluster_counter, result,
                   configVars, fitVars, blockingVars>>

\* hierarchical_clustering, lines 28-41
BuildGraph ==
    /\ pc = "filtered"
    /\ components' = ConnectedComponents(filtered_pairs_table)
    /\ clustering' = <<>>
    /\ cluster_counter' = 0
    /\ pc' = "components"
    /\ UNCHANGED <<X, extra_kind, rules_selected, score_threshold, cluster_threshold,
                   pairs_table, scored_pairs_table, filtered_pairs_table, result,
                   configVars, fitVars, blockingVars>>

\* hierarchical_clustering, lines 42-55: one pass of the loop
ClusterComponent ==
    /\ pc = "components"
    /\ components # <<>>
    /\ \E nodes \in SubgraphNodes(filtered_pairs_table, Head(components)) :
       \E clusters \in ComponentClusters(filtered_pairs_table, nodes, cluster_threshold) :
          clustering' = clustering \o
              [k \in 1..Len(nodes) |->
                  [row_id |-> nodes[k], deduplication_id |-> clusters[k - 1] + cluster_counter]]
    /\ cluster_counter' = NextClusterCounter(cluster_counter, Head(components))
    /\ components' = Tail(components)
    /\ UNCHANGED <<pc, X, extra_kind, rules_selected, score_threshold, cluster_threshold,
                   pairs_table, scored_pairs_table, filtered_pairs_table, result,
                   configVars, fitVars, blockingVars>>

\* hierarchical_clustering, lines 56-61, and the merge of predict, line 271
MergeClusters ==
    /\ pc = "components"
    /\ components = <<>>
    /\ result' = MergeLeft(X, SortValues(clustering))
    /\ pc' = "merged"
    /\ UNCHANGED <<X, extra_kind, rules_selected, score_threshold, cluster_threshold,
                   pairs_table, scored_pairs_table, filtered_pairs_table, components,
                   clustering, cluster_counter,
                   configVars, fitVars, blockingVars>>

\* predict, lines 274-276: np.arange raises on a NaN bound
AddSingletonsStep ==
    /\ pc = "merged"
    /\ \/ /\ MaxClusterId(result) # NaN
          /\ result' = AddSingletons(result)
          /\ pc' = "done"
       \/ /\ MaxClusterId(result) = NaN
          /\ result' = result
          /\ pc' = "error"
    /\ UNCHANGED <<X, extra_kind, rules_selected, score_threshold, cluster_threshold,
                   pairs_table, scored_pairs_table, filtered_pairs_table, components,
                   clustering, cluster_counter,
                   configVars, fitVars, blockingVars>>

Next ==
    \/ Transform
    \/ Score
    \/ BuildGraph
    \/ ClusterComponent
    \/ MergeClusters
    \/ AddSingletonsStep

Spec == Init /\ [][Next]_vars

(***************************************************************************)
(* hierarchical_clustering and the end of predict on any table of          *)
(* surviving scored pairs: records that differ from one another, so that   *)
(* no score is forced, and a score_threshold that every score passes.      *)
(***************************************************************************)
DistinctRecords(n) == [i \in 1..n |-> [name |-> ToString(i), addr |-> "ab", extra |-> NoColumn]]

PairsOf(n) == {p \in (0..(n - 1)) \X (0..(n - 1)) : p[1] < p[2]}

\* the probabilities 0.05, 0.5 and 0.9
ClusterScores == {1, 10, 18}

\* the pairs of S in the order of a self-join: by row_id_1, then by row_id_2
SortedPairs(S, n) ==
    LET keys == SetToSortedSeq({p[1] * n + p[2] : p \in S})
    IN  [k \in 1..Len(keys) |-> <<keys[k] \div n, keys[k] % n>>]

\* the tables of at most MaxPairs rows over n records: distinct pairs in the
\* order of the self-join, each with a score
ScoredTables(n) ==
    UNION {{[i \in 1..Len(SortedPairs(S, n)) |->
                [row_id_1 |-> SortedPairs(S, n)[i][1], row_id_2 |-> SortedPairs(S, n)[i][2],
                 score |-> sc[i]]] : sc \in [1..Cardinality(S) -> ClusterScores]}
           : S \in {T \in SUBSET PairsOf(n) : Cardinality(T) <= MaxPairs}}

InitCluster ==
    /\ pc = "filtered"
    /\ extra_kind = "none"
    /\ \E n \in 0..MaxClusterRecords :
          /\ X = DistinctRecords(n)
          /\ filtered_pairs_table \in ScoredTables(n)
    /\ scored_pairs_table = filtered_pairs_table
    /\ pairs_table = [i \in 1..Len(filtered_pairs_table) |->
                         [row_id_1 |-> filtered_pairs_table[i].row_id_1,
                          row_id_2 |-> filtered_pairs_table[i].row_id_2]]
    /\ rules_selected = <<>>
    /\ score_threshold = 0
    /\ cluster_threshold \in ClusterThresholds
    /\ components = <<>>
    /\ clustering = <<>>
    /\ cluster_counter = 0
    /\ result = <<>>
    /\ Constructed
    /\ BlockingIdle

NextCluster ==
    \/ BuildGraph
    \/ ClusterComponent
    \/ MergeClusters
    \/ AddSingletonsStep

SpecCluster == InitCluster /\ [][NextCluster]_vars

(***************************************************************************)
(* Properties of predict                                                   *)
(***************************************************************************)
RowIds == 0..(Len(X) - 1)
Blocked == pc # "predict"
Scored == pc \notin {"predict", "blocked"}

\* the ids the output gives to the record with row id i
IdsOf(i) == {result[k].deduplication_id : k \in {h \in 1..Len(result) : result[h].row_id = i}}

\* the records that are a node of the graph of the surviving pairs
Clustered == Range(GraphNodes(filtered_pairs_table))

SameFields(i, j) == X[i + 1].name = X[j + 1].name /\ X[i + 1].addr = X[j + 1].addr

IsCandidate(i, j) ==
    \E k \in 1..Len(pairs_table) : pairs_table[k].row_id_1 = i /\ pairs_table[k].row_id_2 = j

HasScore(i, j, s) ==
    \E k \in 1..Len(scored_pairs_table) :
        /\ scored_pairs_table[k].row_id_1 = i
        /\ scored_pairs_table[k].row_id_2 = j
        /\ scored_pairs_table[k].score = s

\* the selected rules under which records i and j have the same token
SharedRules(i, j) ==
    {r \in 1..Len(rules_selected) :
        LET ti == ApplyRule(rules_selected[r].function, X[i + 1][rules_selected[r].col_name])
            tj == ApplyRule(rules_selected[r].function, X[j + 1][rules_selected[r].col_name])
        IN  ti # Null /\ ti = tj}

\* C1: when predict returns, every input record is in exactly one row of the
\* output, the output has no other rows, and every row carries one id
ClusterTotality ==
    pc = "done" =>
        /\ \A k \in 1..Len(result) :
              result[k].row_id \in RowIds /\ result[k].deduplication_id # NaN
        /\ \A i \in RowIds : Cardinality({k \in 1..Len(result) : result[k].row_id = i}) = 1

\* C1 witness: predict returned a table in which one record has its id from
\* hierarchical_clustering and another from _add_singletons
ClusterTotalityWitness ==
    /\ pc = "done"
    /\ \E i, j \in RowIds : i \in Clustered /\ j \notin Clustered

PairOrderingUnique ==
    Blocked =>
        /\ \A k \in 1..Len(pairs_table) : pairs_table[k].row_id_1 < pairs_table[k].row_id_2
        /\ \A k, h \in 1..Len(pairs_table) :
              (k # h) => <<pairs_table[k].row_id_1, pairs_table[k].row_id_2>>
                         # <<pairs_table[h].row_id_1, pairs_table[h].row_id_2>>

\* C3 witness: a returned pair whose records share a token under two selected
\* rules
PairOrderingUniqueWitness ==
    /\ Blocked
    /\ \E i, j \in RowIds : IsCandidate(i, j) /\ Cardinality(SharedRules(i, j)) >= 2

\* C4 as stated: the two records of every returned pair have the same non-null
\* token under some selected rule
BlockingSoundness ==
    Blocked => \A k \in 1..Len(pairs_table) :
                   SharedRules(pairs_table[k].row_id_1, pairs_table[k].row_id_2) # {}

\* C5 as stated: with at most one record, or with no surviving pair, predict
\* returns and gives every record its own id
DegenerateInputsComplete ==
    (pc \in {"done", "error"} /\ (Len(X) <= 1 \/ filtered_pairs_table = <<>>)) =>
        /\ pc = "done"
        /\ \A i, j \in RowIds : i # j => IdsOf(i) # IdsOf(j)

(***************************************************************************)
(* Properties of the cluster ids                                           *)
(***************************************************************************)
OutputIds == {result[k].deduplication_id : k \in 1..Len(result)}
ClusteredIds == UNION {IdsOf(i) : i \in RowIds \cap Clustered}
SingletonIds == UNION {IdsOf(i) : i \in RowIds \ Clustered}
Min(S) == CHOOSE x \in S : \A y \in S : x <= y

PairScore(u, v) == EdgeScore(filtered_pairs_table, u, v)
Linked(u, v) == Adjacent(filtered_pairs_table, u, v)

\* the surviving pairs are a-b and b-c at 0.9, and a-c at 0.05 or not at all;
\* cluster_threshold is 0.5
ChainScenario(a, b, c) ==
    /\ Cardinality({a, b, c}) = 3
    /\ cluster_threshold = 10
    /\ Linked(a, b) /\ PairScore(a, b) = 18
    /\ Linked(b, c) /\ PairScore(b, c) = 18
    /\ Linked(a, c) => PairScore(a, c) = 1
    /\ Clustered = {a, b, c}

\* C8: in the chain scenario the two ends of the chain get different ids
ChainSplit ==
    pc = "done" =>
        \A a, b, c \in RowIds : ChainScenario(a, b, c) => IdsOf(a) # IdsOf(c)

\* C8 witness: the chain scenario with the pair a-c scored 0.05 was clustered
ChainSplitWitness ==
    /\ pc = "done"
    /\ \E a, b, c \in RowIds : ChainScenario(a, b, c) /\ Linked(a, c)

\* C10: two records with the same id are linked by surviving pairs, in the
\* dict of hierarchical_clustering while the loop runs and in the output
NoJoinOfUnlinked ==
    /\ \A k, h \in 1..Len(clustering) :
          clustering[k].deduplication_id = clustering[h].deduplication_id =>
              clustering[h].row_id \in Reach(filtered_pairs_table, {clustering[k].row_id})
    /\ pc = "done" =>
          \A i, j \in RowIds :
              (i # j /\ IdsOf(i) = IdsOf(j)) =>
                  i \in Clustered /\ j \in Reach(filtered_pairs_table, {i})

\* C10 witness: predict returned after clustering two components, one of them
\* merged into one cluster
NoJoinOfUnlinkedWitness ==
    /\ pc = "done"
    /\ \E i, j, k \in Clustered :
          /\ j \notin Reach(filtered_pairs_table, {i})
          /\ k # i /\ IdsOf(k) = IdsOf(i)

(***************************************************************************)
(* Deduplicator.__init__: the argument rules                               *)
(***************************************************************************)
RuleFunctions == {"whole_field", "first_three_letters", "my_rule"}

\* the lists of one to MaxRules rule functions
RuleLists == UNION {[1..k -> RuleFunctions] : k \in 1..MaxRules}

\* the dicts from some of the columns to a list of rule functions
RuleDicts ==
    UNION {{[i \in 1..Len(cs) |-> <<cs[i], f[i]>>] : f \in [1..Len(cs) -> RuleLists]}
           : cs \in SubSeqs(col_names)}

\* lines 64-66: self.rules, all_rules when the argument is None
SelfRules(r) == IF r.kind = "None" THEN [kind |-> "list", value |-> all_rules] ELSE r

\* lines 67-70: self.rules_info for a list and for a dict
RulesInfo(r) ==
    IF SelfRules(r).kind = "list"
    THEN [c \in 1..Len(col_names) |-> <<col_names[c], all_rules>>]
    ELSE SelfRules(r).value

InitConstruct ==
    /\ BlockingIdle
    /\ pc = "new"
    /\ \/ rules = [kind |-> "None", value |-> <<>>]
       \/ \E l \in RuleLists : rules = [kind |-> "list", value |-> l]
       \/ \E d \in RuleDicts : rules = [kind |-> "dict", value |-> d]
       \/ \E l \in RuleLists : rules = [kind |-> "tuple", value |-> l]
    /\ rules_info = <<>>
    /\ X = <<>>
    /\ extra_kind = "none"
    /\ rules_selected = <<>>
    /\ score_threshold = 0
    /\ cluster_threshold = 0
    /\ pairs_table = <<>>
    /\ scored_pairs_table = <<>>
    /\ filtered_pairs_table = <<>>
    /\ components = <<>>
    /\ clustering = <<>>
    /\ cluster_counter = 0
    /\ result = <<>>
    /\ n_samples = 0
    /\ df_sample = <<>>
    /\ fit_pairs_table = <<>>

\* __init__, lines 64-72
Construct ==
    /\ pc = "new"
    /\ \/ /\ SelfRules(rules).kind \in {"list", "dict"}
          /\ rules_info' = RulesInfo(rules)
          /\ pc' = "constructed"
       \/ /\ SelfRules(rules).kind \notin {"list", "dict"}
          /\ rules_info' = rules_info
          /\ pc' = "error"
    /\ UNCHANGED <<X, extra_kind, rules, predictVars, fitVars, blockingVars>>

NextConstruct == Construct

SpecConstruct == InitConstruct /\ [][NextConstruct]_vars

\* C7 as stated: a list of rule functions is the rule list of every configured
\* column, a dict is used unchanged, any other type raises
RulesConfiguration ==
    /\ (pc = "constructed" /\ rules.kind = "list") =>
          /\ Len(rules_info) = Len(col_names)
          /\ \A c \in 1..Len(rules_info) :
                rules_info[c][1] = col_names[c] /\ rules_info[c][2] = rules.value
    /\ (pc = "constructed" /\ rules.kind = "dict") => rules_info = rules.value
    /\ (pc # "new" /\ rules.kind \notin {"None", "list", "dict"}) => pc = "error"

(***************************************************************************)
(* Deduplicator.fit: the sample and its pairs table                        *)
(***************************************************************************)
SampleSizeCeil(n) == CHOOSE m \in 0..n : (m = 0 \/ (m - 1) * (m - 1) < n) /\ n <= m * m

\* line 121: int(n_samples ** 0.5)
SampleSize(n) == CHOOSE m \in 0..n : m * m <= n /\ n < (m + 1) * (m + 1)

\* X_pool.sample(n=m): m different rows, in any order
Samples(n, m) == {sm \in [1..m -> 0..(n - 1)] : \A i, j \in 1..m : sm[i] = sm[j] => i = j}

\* lines 123-130: product(sample, sample)
Product(sm) ==
    Flatten([i \in 1..Len(sm) |-> [j \in 1..Len(sm) |-> [row_id_1 |-> sm[i], row_id_2 |-> sm[j]]]])

\* line 140: sort_values([row_id_1, row_id_2])
RECURSIVE SortByRowIds(_)
SortByRowIds(t) ==
    IF t = <<>> THEN <<>>
    ELSE LET Before(a, b) == a.row_id_1 < b.row_id_1
                             \/ (a.row_id_1 = b.row_id_1 /\ a.row_id_2 <= b.row_id_2)
             lo == CHOOSE i \in 1..Len(t) :
                      /\ \A k \in 1..Len(t) : Before(t[i], t[k])
                      /\ \A k \in 1..(i - 1) : ~Before(t[k], t[i])
         IN  <<t[lo]>> \o SortByRowIds(Pick(t, (1..Len(t)) \ {lo}))

\* lines 123-148
FitPairsTable(sm) ==
    SelectSeq(SortByRowIds(Product(sm)), LAMBDA r : r.row_id_1 <= r.row_id_2)

InitFit ==
    /\ BlockingIdle
    /\ pc = "fit"
    /\ extra_kind = "none"
    /\ \E n \in 0..MaxFitRecords : X \in Records(n, extra_kind)
    /\ n_samples \in 0..MaxSamples
    /\ df_sample = <<>>
    /\ fit_pairs_table = <<>>
    /\ rules = [kind |-> "dict", value |-> FittedRulesInfo]
    /\ rules_info = FittedRulesInfo
    /\ rules_selected = <<>>
    /\ score_threshold = 0
    /\ cluster_threshold = 0
    /\ pairs_table = <<>>
    /\ scored_pairs_table = <<>>
    /\ filtered_pairs_table = <<>>
    /\ components = <<>>
    /\ clustering = <<>>
    /\ cluster_counter = 0
    /\ result = <<>>

\* Deduplicator._create_pairs_table, lines 119-149: sample raises when it is
\* asked for more rows than X has; an empty product has no column 0 to read
CreatePairsTable ==
    /\ pc = "fit"
    /\ \/ /\ SampleSize(n_samples) \in 1..Len(X)
          /\ \E sm \in Samples(Len(X), SampleSize(n_samples)) :
                /\ df_sample' = sm
                /\ fit_pairs_table' = FitPairsTable(sm)
          /\ pc' = "pairs_created"
       \/ /\ SampleSize(n_samples) > Len(X)
          /\ UNCHANGED <<df_sample, fit_pairs_table>>
          /\ pc' = "error"
       \/ /\ SampleSize(n_samples) = 0
          /\ UNCHANGED <<df_sample, fit_pairs_table>>
          /\ pc' = "error"
    /\ UNCHANGED <<X, extra_kind, n_samples, configVars, predictVars, blockingVars>>

NextFit == CreatePairsTable

SpecFit == InitFit /\ [][NextFit]_vars

SamplePairs == {<<fit_pairs_table[k].row_id_1, fit_pairs_table[k].row_id_2>> : k \in 1..Len(fit_pairs_table)}

\* the pairs table is the cross product of the sample with row_id_1 <=
\* row_id_2, every such pair in one row
IsRestrictedCrossProduct ==
    /\ SamplePairs = {p \in Range(df_sample) \X Range(df_sample) : p[1] <= p[2]}
    /\ Cardinality(SamplePairs) = Len(fit_pairs_table)
    /\ \A a \in Range(df_sample) : <<a, a>> \in SamplePairs

\* C9 as stated: the sample has ceil(sqrt(n_samples)) records
SampleSizeIsCeilSqrt ==
    pc = "pairs_created" =>
        /\ (Len(df_sample) - 1) * (Len(df_sample) - 1) < n_samples
        /\ n_samples <= Len(df_sample) * Len(df_sample)
        /\ IsRestrictedCrossProduct

\* C9 amended: the sample has floor(sqrt(n_samples)) different records, fit
\* gets that far whenever this number is at least 1 and at most len(X), and
\* the pairs table is the cross product restricted to row_id_1 <= row_id_2
SampleSizeIsFloorSqrt ==
    /\ pc = "pairs_created" =>
          /\ Len(df_sample) * Len(df_sample) <= n_samples
          /\ n_samples < (Len(df_sample) + 1) * (Len(df_sample) + 1)
          /\ Cardinality(Range(df_sample)) = Len(df_sample)
          /\ Range(df_sample) \subseteq RowIds
          /\ IsRestrictedCrossProduct
    /\ (pc = "error" /\ df_sample = <<>>) =>
          ~ \E m \in 1..Len(X) : m * m <= n_samples /\ n_samples < (m + 1) * (m + 1)

\* C9 witness: a sample of two or more records for an n_samples that is no
\* square
SampleSizeIsFloorSqrtWitness ==
    /\ pc = "pairs_created"
    /\ Len(df_sample) >= 2
    /\ Len(df_sample) * Len(df_sample) < n_samples

\* ---------------------------------------------------------------------------
\* Blocking.fit
\* ---------------------------------------------------------------------------

MaxTrainingPairs == 2

\* recall in halves: 0.5 and the default 1.0
Recalls == {1, 2}

\* a row of the pairs table Blocking.fit is given, with its label
TrainingPair == [name_1 : Values, addr_1 : Values, name_2 : Values, addr_2 : Values,
                 match : {0, 1}]

TrainingTables(n) == [1..n -> TrainingPair]

\* row[f"{col_name}_1"] and row[f"{col_name}_2"]
PairField(row, col_name, side) ==
    CASE col_name = "name" /\ side = 1 -> row.name_1
      [] col_name = "name" /\ side = 2 -> row.name_2
      [] col_name = "addr" /\ side = 1 -> row.addr_1
      [] col_name = "addr" /\ side = 2 -> row.addr_2

\* the None of apply_rule
None == <<Null, -1>>

\* apply_rule, lines 63-68: the rule's result tagged with j, None where the rule
\* yields nothing
apply_rule(rule, x, j) ==
    LET token == ApplyRule(rule, x)
    IN  IF token = Null THEN None ELSE <<token, j>>

\* the column f"{col_name}_{func_name}", lines 80-92: 1 where both sides are
\* not None and equal
CoveredFlag(row, rule_spec, j) ==
    LET t1 == apply_rule(rule_spec.function, PairField(row, rule_spec.col_name, 1), j)
        t2 == apply_rule(rule_spec.function, PairField(row, rule_spec.col_name, 2), j)
    IN  IF t1 # None /\ t2 # None /\ t1 = t2 THEN 1 ELSE 0

\* lines 93-101: the index of every row whose flag is 1
RuleSet(df, rule_spec, j) ==
    {i - 1 : i \in {k \in 1..Len(df) : CoveredFlag(df[k], rule_spec, j) = 1}}

\* lines 112-113
Matches(df) == {i - 1 : i \in {k \in 1..Len(df) : df[k].match = 1}}

\* the subset the selector takes next: the one that covers most of what is
\* still uncovered, the earliest of them on a tie
BestSubset(subsets, uncovered) ==
    CHOOSE b \in 1..Len(subsets) :
        \A k \in 1..Len(subsets) :
            \/ Cardinality(subsets[k] \cap uncovered) < Cardinality(subsets[b] \cap uncovered)
            \/ /\ Cardinality(subsets[k] \cap uncovered) = Cardinality(subsets[b] \cap uncovered)
               /\ b <= k

RECURSIVE GreedyFrom(_, _, _, _, _)
GreedyFrom(subsets, parent_set, min_recall, uncovered, chosen) ==
    IF \/ subsets = <<>>
       \/ 2 * Cardinality(parent_set \ uncovered) >= min_recall * Cardinality(parent_set)
    THEN chosen
    ELSE LET b == BestSubset(subsets, uncovered)
         IN  IF subsets[b] \cap uncovered = {} THEN chosen
             ELSE GreedyFrom(subsets, parent_set, min_recall, uncovered \ subsets[b],
                             Append(chosen, b))

\* the chosen subsets, each named by its position in subsets (the object, not
\* its elements)
greedy_set_cover(subsets, parent_set, min_recall) ==
    GreedyFrom(subsets, parent_set, min_recall, parent_set, <<>>)

\* _rules_specs once every rule_set is there
FittedRulesSpecs(info, sets) ==
    LET specs == RulesSpecs(info)
    IN  [j \in 1..Len(specs) |->
            [col_name |-> specs[j].col_name, function |-> specs[j].function,
             rule_set |-> sets[j]]]

\* rule_spec["rule_set"] in self.cover, line 120: a list holds a set when one
\* of its items is that set or equals it
InCover(rule_set, subsets, cov) == \E k \in 1..Len(cov) : subsets[cov[k]] = rule_set

\* lines 117-121
RulesSelected(info, sets, cov) ==
    LET specs == FittedRulesSpecs(info, sets)
    IN  Pick(specs, {j \in 1..Len(specs) : InCover(specs[j].rule_set, sets, cov)})

InitBlockingFit ==
    /\ pc = "blocking_fit"
    /\ \E n \in 0..MaxTrainingPairs : df_training \in TrainingTables(n)
    /\ recall \in Recalls
    /\ rule_sets = <<>>
    /\ universe = {}
    /\ cover = <<>>
    /\ X = <<>>
    /\ extra_kind = "none"
    /\ rules_selected = <<>>
    /\ score_threshold = 0
    /\ cluster_threshold = 0
    /\ pairs_table = <<>>
    /\ scored_pairs_table = <<>>
    /\ filtered_pairs_table = <<>>
    /\ components = <<>>
    /\ clustering = <<>>
    /\ cluster_counter = 0
    /\ result = <<>>
    /\ Constructed

\* one pass of the loop of lines 70-101
EvaluateRule ==
    /\ pc = "blocking_fit"
    /\ Len(rule_sets) < Len(RulesSpecs(rules_info))
    /\ rule_sets' = Append(rule_sets,
                           RuleSet(df_training, RulesSpecs(rules_info)[Len(rule_sets) + 1],
                                   Len(rule_sets)))
    /\ UNCHANGED <<pc, X, extra_kind, df_training, universe, cover, recall,
                   configVars, fitVars, predictVars>>

\* lines 110-115
SetCover ==
    /\ pc = "blocking_fit"
    /\ Len(rule_sets) = Len(RulesSpecs(rules_info))
    /\ universe' = Matches(df_training)
    /\ cover' = greedy_set_cover(rule_sets, Matches(df_training), recall)
    /\ pc' = "covered"
    /\ UNCHANGED <<X, extra_kind, df_training, rule_sets, recall,
                   configVars, fitVars, predictVars>>

\* lines 117-123
SelectRules ==
    /\ pc = "covered"
    /\ rules_selected' = RulesSelected(rules_info, rule_sets, cover)
    /\ pc' = "fitted"
    /\ UNCHANGED <<X, extra_kind, score_threshold, cluster_threshold, pairs_table,
                   scored_pairs_table, filtered_pairs_table, components, clustering,
                   cluster_counter, result, configVars, fitVars, blockingVars>>

NextBlockingFit == EvaluateRule \/ SetCover \/ SelectRules

SpecBlockingFit == InitBlockingFit /\ [][NextBlockingFit]_vars

\* C11: after Blocking.fit, rules_selected holds exactly the rule specs whose
\* own rule_set the selector chose: a rule the selector did not choose is not
\* selected, also when its rule_set has the elements of a chosen one, and
\* rules_selected is as long as the cover
SelectedOneToOne ==
    pc = "fitted" =>
        /\ Len(rules_selected) = Len(cover)
        /\ \A j \in 1..Len(rule_sets) :
              (FittedRulesSpecs(rules_info, rule_sets)[j] \in Range(rules_selected))
                  <=> (j \in Range(cover))

\* the training pairs with label 1 on which the rule of a spec yields equal
\* tokens that are not null
CoveredMatches(rule_spec) ==
    {i - 1 : i \in {k \in 1..Len(df_training) :
        /\ df_training[k].match = 1
        /\ ApplyRule(rule_spec.function, PairField(df_training[k], rule_spec.col_name, 1)) # Null
        /\ ApplyRule(rule_spec.function, PairField(df_training[k], rule_spec.col_name, 2))
              = ApplyRule(rule_spec.function, PairField(df_training[k], rule_spec.col_name, 1))}}

\* C12: every rule_set is exactly the set of the training pairs labelled 1 on
\* which the rule yields equal non-null tokens, so it lies within the universe,
\* which is the set of the training pairs labelled 1
RuleSetContent ==
    /\ \A j \in 1..Len(rule_sets) :
          rule_sets[j] = CoveredMatches(RulesSpecs(rules_info)[j])
    /\ pc \in {"covered", "fitted"} =>
          /\ universe = {i - 1 : i \in {k \in 1..Len(df_training) : df_training[k].match = 1}}
          /\ \A j \in 1..Len(rule_sets) : rule_sets[j] \subseteq universe

====
